---- MODULE Spec2Model ----
(***************************************************************************)
(* Data-lifecycle subsystem of Theia: the ClickHouse storage monitor       *)
(* (plugins/clickhouse-monitor) and the data schema migrator (the Go        *)
(* binary and the chart's migrate.sh).  The monitor's main.go is modelled   *)
(* from the design                                                         *)
(* specification and from the statements main_test.go expects of it.       *)
(* One monitor round is one action; the                                    *)
(* store is a function from table name to the insertion times of its rows, *)
(* in the order a scan without ORDER BY returns them (the MergeTree key     *)
(* starts with timeInserted, so ascending).  timeInserted is a DateTime:   *)
(* whole seconds, modelled as naturals.                                    *)
(***************************************************************************)
EXTENDS Integers, Sequences, FiniteSets, TLC

(* ---- bounds of the model ---- *)
MaxRows == 3
MaxTime == 3
\* versions in the migrator's version table (the build ships two; the chain is
\* modelled one longer so that a path of several steps exists)
NumVersions == 3
\* migrator runs in a behaviour
MaxRuns == 3

(* ---- configuration of the monitor ---- *)
tableName == "flows"
\* MV_NAMES: two of the views the deployment configures
mvNames == <<"flows_pod_view", "flows_node_view">>

Fraction(num, den) == [num |-> num, den |-> den]
Config(alloc, thr, p, skip) ==
    [allocatedSpace |-> alloc, threshold |-> thr, deletePercentage |-> p,
     idleRoundsToSkip |-> skip]
\* the configurations the monitor is started with
Configs ==
    { Config(10, Fraction(1, 2), Fraction(1, 2), 2),
      Config(10, Fraction(1, 2), Fraction(2, 3), 0),
      Config(10, Fraction(3, 5), Fraction(1, 1), 1) }

VARIABLES
    allocatedSpace,     \* STORAGE_SIZE in bytes
    threshold,          \* THRESHOLD, a fraction num/den in (0,1]
    deletePercentage,   \* DELETE_PERCENTAGE, a fraction num/den in (0,1]
    idleRoundsToSkip,   \* SKIP_ROUNDS_NUM
    sizeString,         \* the text of STORAGE_SIZE, a sequence of characters
    size,               \* what parseSize made of sizeString
    roundsRemaining,    \* the skip counter
    store,              \* table name -> sequence of timeInserted values
    clock,              \* now() of the store, in seconds
    last,               \* what the last monitor round did, and after how many idle rounds (history)
    before,             \* the store as it was when the last round began (history)
    answers,            \* what the store answered in the last round: fault, sample, failing deletes (history)
    sinceEvict,         \* idle rounds since the last eviction round, -1 if none (history)
    evictedAt,          \* the cutoff of the latest eviction round, NoTime if none (history)
    impl,               \* the migrator the release ships: "go" (the binary) or "sh" (migrate.sh)
    migrate_version,    \* the version table: whether it exists, and its rows in insertion order
    flowsExists,        \* whether the flows table exists in the store the migrator connects to
    run,                \* what the last migrator run did (history)
    runs,               \* migrator runs so far
    poll,               \* the retry loop in progress or last finished: wait.PollImmediate and its condition
    race,               \* two migrator processes on one store: where each is in main, and whether they overlapped
    cli                 \* a run of theiactl policyreco start / check: the cluster it meets and how far it got

vars == <<allocatedSpace, threshold, deletePercentage, idleRoundsToSkip, sizeString, size,
          roundsRemaining, store, clock, last, before, answers, sinceEvict, evictedAt,
          impl, migrate_version, flowsExists, run, runs, poll, race, cli>>

monitor == <<allocatedSpace, threshold, deletePercentage, idleRoundsToSkip, sizeString, size,
             roundsRemaining, store, clock, last, before, answers, sinceEvict, evictedAt>>
migrator == <<impl, migrate_version, flowsExists, run, runs, poll, race, cli>>

config == <<allocatedSpace, threshold, deletePercentage, idleRoundsToSkip, sizeString, size>>

(* ---- tables and statements ---- *)
SeqToSet(s) == {s[i] : i \in 1..Len(s)}

TablesBaseOnly == <<tableName>>
TablesViewsFirst == mvNames \o <<tableName>>
\* the delete order of a round: the base table, then the views as configured
Tables == <<tableName>> \o mvNames

AllTables == {tableName} \cup SeqToSet(mvNames)

NoTime == 0

Stmt(op, table, arg) == [op |-> op, table |-> table, arg |-> arg]
\* SELECT free_space, total_space FROM system.disks
diskQuery == Stmt("select", "system.disks", 0)
\* SELECT SUM(bytes) FROM system.parts
partsQuery == Stmt("select", "system.parts", 0)
\* SELECT COUNT() FROM <table>
countQuery(table) == Stmt("count", table, 0)
boundaryQueryOffByOne(table, offset) == Stmt("boundary", table, offset - 1)
\* SELECT timeInserted FROM <table> LIMIT 1 OFFSET <offset>
boundaryQuery(table, offset) == Stmt("boundary", table, offset)

deleteCommandOnBase(table, timeBoundary) == Stmt("delete", tableName, timeBoundary)
\* ALTER TABLE <table> DELETE WHERE timeInserted < toDateTime('<timeBoundary>')
deleteCommand(table, timeBoundary) == Stmt("delete", table, timeBoundary)

(* ---- the store's answer to the statements ---- *)
DeleteWhereInclusive(rows, timeBoundary) == SelectSeq(rows, LAMBDA t : ~(t <= timeBoundary))
\* rows left by DELETE WHERE timeInserted < timeBoundary
DeleteWhere(rows, timeBoundary) == SelectSeq(rows, LAMBDA t : ~(t < timeBoundary))

\* LIMIT 1 OFFSET offset: the row after the first offset rows, no row if there is none
HasRowAt(rows, offset) == offset < Len(rows)
RowAt(rows, offset) == rows[offset + 1]

(* ---- the monitor's decisions ---- *)
TriggerInclusive(freeBytes, totalBytes, partsBytes, alloc, thr) ==
    freeBytes * thr.den <= thr.num * alloc
TriggerOnUsage(freeBytes, totalBytes, partsBytes, alloc, thr) ==
    LET total == IF freeBytes + partsBytes < alloc THEN freeBytes + partsBytes ELSE alloc
    IN  partsBytes * thr.den > thr.num * total
\* eviction is warranted iff freeBytes < threshold * allocatedSpaceBytes
Trigger(freeBytes, totalBytes, partsBytes, alloc, thr) ==
    freeBytes * thr.den < thr.num * alloc

\* offset = floor(rowCount * deletePercentage)
DeleteRowNum(rowCount, p) == (rowCount * p.num) \div p.den

NoCutoffNever(offset) == FALSE
\* offset 0: nothing to delete, the resolver returns the no-cutoff outcome
NoCutoff(offset) == offset = 0

RECURSIVE UntilFirstFailure(_, _)
UntilFirstFailure(tables, failing) ==
    IF tables = <<>> THEN <<>>
    ELSE IF Head(tables) \in failing THEN <<Head(tables)>>
    ELSE <<Head(tables)>> \o UntilFirstFailure(Tail(tables), failing)
\* the tables a delete is attempted on when the deletes on `failing` fail
Attempted(tables, failing) == tables

SkipAfterEvictionMinusOne(skipRounds, failing) == skipRounds - 1
SkipAfterSuccessOnly(skipRounds, failing) == IF failing = {} THEN skipRounds ELSE 0
\* the skip counter after an eviction round, successful or not
SkipAfterEviction(skipRounds, failing) == skipRounds

\* the store after the delete commands, those on a table of `failing` having failed
RECURSIVE ExecAll(_, _, _)
ExecAll(st, cmds, failing) ==
    IF cmds = <<>> THEN st
    ELSE LET c == Head(cmds)
         IN  ExecAll(IF c.table \in failing THEN st
                     ELSE [st EXCEPT ![c.table] = DeleteWhere(@, c.arg)],
                     Tail(cmds), failing)

(* ---- rounds ---- *)
Round(kind, free, total, parts, count, cutoff, failed, log) ==
    [kind |-> kind, free |-> free, total |-> total, parts |-> parts,
     count |-> count, cutoff |-> cutoff, failed |-> failed, log |-> log,
     idleBefore |-> -1, fault |-> "none", cutoffBefore |-> NoTime]
NoRound == Round("none", 0, 0, 0, 0, NoTime, {}, <<>>)

(* ---- state of the migrator ---- *)
\* the version table: (*) is its one column, version
VersionTable(exists, rows) == [exists |-> exists, rows |-> rows]
NoVersionTable == VersionTable(FALSE, <<>>)

\* the record of a migrator run: how it ended, the data and target versions it
\* resolved, the migrators it invoked in order, the invoked migrators that returned
\* an error, the statements it issued on the version table and whether the last of
\* them succeeded
MigRun(kind, data, target, invoked, failed, writes, wrote) ==
    [kind |-> kind, data |-> data, target |-> target, invoked |-> invoked,
     failed |-> failed, writes |-> writes, wrote |-> wrote,
     rowsBefore |-> <<>>, settledBefore |-> "", settled |-> "",
     existedBefore |-> FALSE, fault |-> "none", afterFatal |-> "",
     mismatch |-> FALSE, connectTried |-> FALSE,
     rowRead |-> FALSE, flowsChecked |-> FALSE]
NoRun == MigRun("none", "", "", <<>>, {}, <<>>, FALSE)

\* a call of wait.PollImmediate(interval, timeout, condition) by fn: the seconds
\* elapsed since the call, whether a call of the condition is due, the calls of
\* the condition so far, the outcome of the last one, what the closure keeps of
\* the last failure (connErr), the version the closure has set, and the error
\* fn returns; failure and successes are history: the last underlying failure
\* and the number of calls whose statement succeeded
Poll(fn, interval, timeout) ==
    [fn |-> fn, interval |-> interval, timeout |-> timeout, state |-> "polling",
     elapsed |-> 0, due |-> TRUE, attempts |-> 0, outcome |-> "",
     connErr |-> "", version |-> "", err |-> "",
     failure |-> "", successes |-> 0]
NoPoll == [Poll("", 0, 0) EXCEPT !.state = "idle", !.due = FALSE]

\* a migrator process: where it is in main, its THEIA_VERSION, the data version
\* it read, the migrators it invoked and whether its insert succeeded
Procs == {"p1", "p2"}
Proc(pc, target, data, invoked, wrote) ==
    [pc |-> pc, target |-> target, data |-> data, invoked |-> invoked, wrote |-> wrote]
NoProc == Proc("idle", "", "", <<>>, FALSE)
\* overlapped: a process started while the other was inside main (history)
NoRace == [procs |-> [p \in Procs |-> NoProc], overlapped |-> FALSE]

\* a run of a policyreco command: the command, the Spark Operator Pods and the
\* phases of the ClickHouse Pods of the flow-visibility namespace, the Pod
\* list the API server fails ("none": it answers both), where RunE is, the
\* error of PolicyRecoPreCheck ("": nil), and the requests RunE sent
Cli(cmd, sparkPods, clickHousePods, listFault) ==
    [cmd |-> cmd, sparkPods |-> sparkPods, clickHousePods |-> clickHousePods,
     listFault |-> listFault, pc |-> "precheck", err |-> "", requests |-> <<>>]
NoCli == [Cli("", 0, <<>>, "none") EXCEPT !.pc = "idle"]

(***************************************************************************)
(* parseSize: STORAGE_SIZE is a decimal number, whole or with a fraction,  *)
(* followed by no unit or by a unit of the binary or of the decimal family. *)
(* A byte count is a sequence of decimal digits, most significant first.    *)
(***************************************************************************)
MaxDigits == 3

Digits == <<"0", "1", "2", "3", "4", "5", "6", "7", "8", "9">>
IsDigit(c) == \E i \in DOMAIN Digits : Digits[i] = c
DigitOf(c) == (CHOOSE i \in DOMAIN Digits : Digits[i] = c) - 1

\* the unit suffixes: the base of the family and the power
UnitNames == { <<>>, <<"K">>, <<"M">>, <<"G">>, <<"T">>,
               <<"K", "i">>, <<"M", "i">>, <<"G", "i">>, <<"T", "i">> }
UnitPower(unit) ==
    IF unit = <<>> THEN 0
    ELSE CHOOSE n \in 1..4 : <<"K", "M", "G", "T">>[n] = unit[1]
UnitBaseDecimalOnly(unit) == 1000
UnitBase(unit) == IF Len(unit) = 2 THEN 1024 ELSE 1000

\* the digits of the byte count d times k, plus carry; least significant first
RECURSIVE TimesLow(_, _, _)
TimesLow(d, k, carry) ==
    IF d = <<>>
    THEN IF carry = 0 THEN <<>> ELSE <<carry % 10>> \o TimesLow(<<>>, k, carry \div 10)
    ELSE LET p == Head(d) * k + carry
         IN  <<p % 10>> \o TimesLow(Tail(d), k, p \div 10)
Reverse(d) == [i \in 1..Len(d) |-> d[Len(d) + 1 - i]]
\* a byte count without leading zeros; zero is <<0>>
RECURSIVE Normal(_)
Normal(d) == IF Len(d) > 1 /\ Head(d) = 0 THEN Normal(Tail(d)) ELSE d
Times(d, k) == IF d = <<>> THEN <<>> ELSE Normal(Reverse(TimesLow(Reverse(d), k, 0)))
RECURSIVE TimesPower(_, _, _)
TimesPower(d, base, n) == IF n = 0 THEN d ELSE TimesPower(Times(d, base), base, n - 1)

\* the number of digits of text from position i on
RECURSIVE DigitRun(_, _)
DigitRun(text, i) ==
    IF i <= Len(text) /\ IsDigit(text[i]) THEN 1 + DigitRun(text, i + 1) ELSE 0

Size(bytes, err) == [bytes |-> bytes, err |-> err, parsed |-> TRUE]
NoSize == [bytes |-> <<>>, err |-> FALSE, parsed |-> FALSE]
InvalidSizeFormat == Size(<<>>, TRUE)

\* parseSize(sizeString): the whole digits, the fraction digits after a point,
\* the unit; the product is cut to whole bytes
parseSize(text) ==
    LET w == DigitRun(text, 1)
        point == w + 1 <= Len(text) /\ text[w + 1] = "."
        f == IF point THEN DigitRun(text, w + 2) ELSE 0
        numEnd == IF point THEN w + 1 + f ELSE w
        unit == SubSeq(text, numEnd + 1, Len(text))
        number == [i \in 1..(w + f) |->
                     DigitOf(IF i <= w THEN text[i] ELSE text[i + 1])]
        product == TimesPower(Normal(number), UnitBase(unit), UnitPower(unit))
    IN  IF w = 0 \/ (point /\ f = 0) \/ unit \notin UnitNames THEN InvalidSizeFormat
        ELSE IF Len(product) <= f THEN Size(<<0>>, FALSE)
        ELSE Size(SubSeq(product, 1, Len(product) - f), FALSE)

\* the STORAGE_SIZE of the deployment the monitor runs in
StorageSize == <<"1", "0">>

\* the texts STORAGE_SIZE is drawn from: up to MaxDigits characters of a
\* number, then up to two of a unit, or a unit character first
NumChars == {"0", "2", "5", "."}
UnitChars == {"K", "M", "G", "T", "i", "x"}
Strings(chars, n) == UNION {[1..k -> chars] : k \in 0..n}
Texts ==
    {n \o u : n \in Strings(NumChars, MaxDigits), u \in Strings(UnitChars, 2)}
        \cup {u \o n : u \in Strings(UnitChars, 1), n \in Strings(NumChars, MaxDigits)}

MonitorInit ==
    /\ \E c \in Configs :
        /\ allocatedSpace = c.allocatedSpace
        /\ threshold = c.threshold
        /\ deletePercentage = c.deletePercentage
        /\ idleRoundsToSkip = c.idleRoundsToSkip
    /\ roundsRemaining = 0
    /\ store = [t \in AllTables |-> <<>>]
    /\ clock = 1
    /\ last = NoRound
    /\ before = store
    /\ sinceEvict = -1
    /\ evictedAt = NoTime
    /\ answers = <<>>

\* the monitor runs beside a store no migrator has touched
Init ==
    /\ MonitorInit
    /\ impl = "go"
    /\ migrate_version = NoVersionTable
    /\ flowsExists = TRUE
    /\ run = NoRun
    /\ runs = 0
    /\ poll = NoPoll
    /\ race = NoRace
    /\ cli = NoCli
    /\ sizeString = StorageSize
    /\ size = parseSize(sizeString)

(* a flow record is inserted at the store's clock, which may have advanced  *)
(* by a second: a row in the base table; the first view keeps one row per    *)
(* record, every other view aggregates the records of one second into a row  *)
InsertFlow ==
    /\ Len(store[tableName]) < MaxRows
    /\ \E now \in {t \in {clock, clock + 1} : t <= MaxTime} :
        /\ clock' = now
        /\ store' = [t \in AllTables |->
                        IF t = tableName \/ t = mvNames[1] \/ now \notin SeqToSet(store[t])
                        THEN Append(store[t], now) ELSE store[t]]
    /\ answers' = <<>>
    /\ last' = NoRound
    /\ before' = store'
    /\ UNCHANGED <<config, roundsRemaining, sinceEvict, evictedAt, migrator>>

SkipCounterReset(remaining) == 0
\* the skip counter after an idle round
SkipCounterAfterIdle(remaining) == remaining - 1

(* a round inside the idle phase: nothing is sampled *)
IdleRound ==
    /\ roundsRemaining > 0
    /\ answers' = <<>>
    /\ roundsRemaining' = SkipCounterAfterIdle(roundsRemaining)
    /\ last' = [Round("idle", 0, 0, 0, 0, NoTime, {}, <<>>) EXCEPT !.idleBefore = sinceEvict]
    /\ before' = store
    /\ sinceEvict' = IF sinceEvict >= 0 THEN sinceEvict + 1 ELSE sinceEvict
    /\ UNCHANGED <<config, store, clock, evictedAt, migrator>>

AbandonNever(fault) == FALSE
\* a failed disk-status query abandons the round
AbandonOnDiskFailure(fault) == fault = "disk"

\* the outcome of monitorMemory on the store st: the round record and the new store;
\* fault names the query the store fails ("none": it answers them all), failing the
\* tables whose delete fails
monitorMemory(st, fault, free, total, parts, failing) ==
    IF AbandonOnDiskFailure(fault) THEN
        [round |-> Round("abandoned", 0, 0, 0, 0, NoTime, {}, <<diskQuery>>), store |-> st]
    ELSE IF fault = "parts" THEN
        [round |-> Round("abandoned", 0, 0, 0, 0, NoTime, {}, <<diskQuery, partsQuery>>),
         store |-> st]
    ELSE IF ~Trigger(free, total, parts, allocatedSpace, threshold) THEN
        [round |-> Round("noaction", free, total, parts, 0, NoTime, {},
                         <<diskQuery, partsQuery>>),
         store |-> st]
    ELSE IF fault = "count" THEN
        [round |-> Round("resolverfailed", free, total, parts, 0, NoTime, {},
                         <<diskQuery, partsQuery, countQuery(tableName)>>),
         store |-> st]
    ELSE
        LET rowCount == Len(st[tableName])
            offset == DeleteRowNum(rowCount, deletePercentage)
        IN  IF NoCutoff(offset) THEN
                [round |-> Round("nocutoff", free, total, parts, rowCount, NoTime, {},
                                 <<diskQuery, partsQuery, countQuery(tableName)>>),
                 store |-> st]
            ELSE
                LET q == boundaryQuery(tableName, offset)
                    queries == <<diskQuery, partsQuery, countQuery(tableName), q>>
                IN  IF fault = "boundary" \/ ~HasRowAt(st[q.table], q.arg) THEN
                        [round |-> Round("resolverfailed", free, total, parts, rowCount,
                                         NoTime, {}, queries),
                         store |-> st]
                    ELSE
                        LET timeBoundary == RowAt(st[q.table], q.arg)
                            attempted == Attempted(Tables, failing)
                            cmds == [i \in 1..Len(attempted) |->
                                        deleteCommand(attempted[i], timeBoundary)]
                        IN  [round |-> Round("evicted", free, total, parts, rowCount,
                                             timeBoundary, failing, queries \o cmds),
                             store |-> ExecAll(st, cmds, failing)]

\* one round outside the idle phase, on the given answers of the store
Sample(fault, free, total, parts, failing) ==
    LET out == monitorMemory(store, fault, free, total, parts, failing)
    IN  /\ roundsRemaining = 0
        /\ answers' = <<fault, free, total, parts, failing>>
        /\ last' = [out.round EXCEPT !.idleBefore = sinceEvict, !.fault = fault,
                                      !.cutoffBefore = evictedAt]
        /\ store' = out.store
        /\ roundsRemaining' = IF out.round.kind = "evicted"
                              THEN SkipAfterEviction(idleRoundsToSkip, failing)
                              ELSE roundsRemaining
        /\ sinceEvict' = IF out.round.kind = "evicted" THEN 0 ELSE -1
        /\ evictedAt' = IF out.round.kind = "evicted" THEN out.round.cutoff ELSE evictedAt
        /\ before' = store
        /\ UNCHANGED <<config, clock, migrator>>

\* free_space of the disk: below, at and above half of the allocated space
FreeSet == {4, 5, 6}
\* total_space of the disk and SUM(bytes) of the parts, sampled with free_space
TotalAndParts == {<<10, 5>>, <<12, 10>>}
\* the samples of a round: the first disk at each free space, the fuller one
\* at the highest
Samples ==
    {s \in FreeSet \X TotalAndParts : s[2] = <<10, 5>> \/ s[1] = 6}

(* a round whose disk-status or part-size query fails *)
SampleFailedRound ==
    \E fault \in {"disk", "parts"} : Sample(fault, 0, 0, 0, {})

(* a round that samples while the store answers every query; the deletes   *)
(* on the tables of `failing` fail if the round gets to them               *)
SamplingRound ==
    \E s \in Samples :
        \E failing \in IF Trigger(s[1], s[2][1], s[2][2], allocatedSpace, threshold)
                       THEN SUBSET AllTables ELSE {{}} :
            /\ Sample("none", s[1], s[2][1], s[2][2], failing)
            /\ failing # {} => last'.kind = "evicted"

(* a round that triggers and whose row-count or boundary-row query fails *)
ResolverFailedRound ==
    \E fault \in {"count", "boundary"}, s \in Samples :
        /\ Trigger(s[1], s[2][1], s[2][2], allocatedSpace, threshold)
        /\ Sample(fault, s[1], s[2][1], s[2][2], {})

Next ==
    \/ InsertFlow
    \/ IdleRound
    \/ SampleFailedRound
    \/ SamplingRound
    \/ ResolverFailedRound

Spec == Init /\ [][Next]_vars

\* a round of the polling loop, idle or sampling
MonitorRound == IdleRound \/ SampleFailedRound \/ SamplingRound \/ ResolverFailedRound
\* the polling loop runs a round every EXEC_INTERVAL
LiveSpec == Spec /\ WF_vars(MonitorRound)

(***************************************************************************)
(* The data schema migrator.  A run of the migrator is one action: the Go   *)
(* binary's main, or the chart's migrate.sh.  A migrator is an opaque unit  *)
(* of work, modelled by its direction and its index in its list.            *)
(***************************************************************************)
\* version strings of the releases, oldest first; the build knows the first NumVersions
GoVersionNames == <<"v0.1.0", "v0.2.0", "v0.3.0", "v0.4.0", "v0.5.0">>
GoKnown == {GoVersionNames[i] : i \in 1..NumVersions}
versionToIndex ==
    [v \in GoKnown |-> (CHOOSE i \in 1..NumVersions : GoVersionNames[i] = v) - 1]
upgradingMigrators == [i \in 0..(NumVersions - 2) |-> <<"up", i>>]
downgradingMigrators == [i \in 0..(NumVersions - 2) |-> <<"down", i>>]

\* for i := first; i < bound; i++
RECURSIVE CountUp(_, _)
CountUp(first, bound) ==
    IF first < bound THEN <<first>> \o CountUp(first + 1, bound) ELSE <<>>
\* for i := first; i >= bound; i--
RECURSIVE CountDown(_, _)
CountDown(first, bound) ==
    IF first >= bound THEN <<first>> \o CountDown(first - 1, bound) ELSE <<>>

UpgradeLoopSkipFirst(dataVersionIndex, theiaVersionIndex) ==
    CountUp(dataVersionIndex + 1, theiaVersionIndex)
\* the indices the upgrading loop of main visits
UpgradeLoop(dataVersionIndex, theiaVersionIndex) ==
    CountUp(dataVersionIndex, theiaVersionIndex)
\* the indices the downgrading loop of main visits
DowngradeLoop(dataVersionIndex, theiaVersionIndex) ==
    CountDown(theiaVersionIndex - 1, dataVersionIndex)

LookupOkAlways(version) == TRUE
\* the ok of versionToIndex[version]
LookupOk(version) == version \in DOMAIN versionToIndex
\* the value of versionToIndex[version]: the zero value when the key is absent
Lookup(version) == IF version \in DOMAIN versionToIndex THEN versionToIndex[version] ELSE 0

\* connectLoop: fails when CLICKHOUSE_USERNAME, CLICKHOUSE_PASSWORD or DB_URL is
\* unset, and when the store cannot be reached within connTimeout
connectLoop(fault) == [err |-> fault \in {"env", "conn"}]

\* getDataVersion; row is the row the scan of a non-empty version table returns.
\* A query that keeps failing (and the scan of an empty table, which has no row)
\* is retried until queryTimeout and is then an error
DataVersion(version, err, rowRead, flowsChecked) ==
    [version |-> version, err |-> err, rowRead |-> rowRead, flowsChecked |-> flowsChecked]
getDataVersionAssumeLegacy(table, flows, fault, row) ==
    IF fault = "read" THEN DataVersion("", TRUE, FALSE, FALSE)
    ELSE IF table.exists THEN
        IF table.rows = <<>> THEN DataVersion("", TRUE, FALSE, FALSE)
        ELSE DataVersion(row, FALSE, TRUE, FALSE)
    ELSE DataVersion("v0.1.0", FALSE, FALSE, TRUE)
\* the result also tells whether a version row was read and whether the flows
\* table was counted
getDataVersion(table, flows, fault, row) ==
    IF fault = "read" THEN DataVersion("", TRUE, FALSE, FALSE)
    ELSE IF table.exists THEN
        IF table.rows = <<>> THEN DataVersion("", TRUE, FALSE, FALSE)
        ELSE DataVersion(row, FALSE, TRUE, FALSE)
    ELSE IF flows THEN DataVersion("v0.1.0", FALSE, FALSE, TRUE)
    ELSE DataVersion("not found", TRUE, FALSE, TRUE)

\* getTheiaVerstion: THEIA_VERSION must be set
getTheiaVerstion(theiaVersion) == [version |-> theiaVersion, err |-> theiaVersion = ""]

insertVersion == "INSERT INTO migrate_version"
\* setDataVersion: the insert fails until queryTimeout when the table does not
\* exist or the store rejects it
setDataVersion(table, version, fault) ==
    IF table.exists /\ fault # "write"
    THEN [table |-> VersionTable(TRUE, Append(table.rows, version)), err |-> FALSE]
    ELSE [table |-> table, err |-> TRUE]

Returned(kind, data, target, table) ==
    [run |-> MigRun(kind, data, target, <<>>, {}, <<>>, FALSE), table |-> table]

\* the migrators a loop gets to call: indexing a list past its end panics
Callable(migrators, indices) ==
    LET bad == {k \in DOMAIN indices : indices[k] \notin DOMAIN migrators}
        n == IF bad = {} THEN Len(indices)
             ELSE (CHOOSE k \in bad : \A j \in bad : k <= j) - 1
    IN  [migrators |-> [k \in 1..n |-> migrators[indices[k]]], panic |-> bad # {}]

\* the steps of main from connectLoop on, in a build with the given migrator
\* lists; failing are the indices of the migrators that return an error
Migrate(upgrading, downgrading, table, flows, fault, theiaVersion, row, failing) ==
    IF connectLoop(fault).err THEN Returned("connectLoop", "", "", table)
    ELSE LET dv == getDataVersion(table, flows, fault, row) IN
    IF dv.err THEN Returned("getDataVersion", "", "", table)
    ELSE IF dv.version = "not found" THEN Returned("noschema", "", "", table)
    ELSE LET tv == getTheiaVerstion(theiaVersion) IN
    IF tv.err THEN Returned("getTheiaVerstion", dv.version, "", table)
    ELSE IF ~LookupOk(dv.version) THEN Returned("dataVersion", dv.version, tv.version, table)
    ELSE IF ~LookupOk(tv.version) THEN Returned("theiaVersion", dv.version, tv.version, table)
    ELSE
        LET dataVersionIndex == Lookup(dv.version)
            theiaVersionIndex == Lookup(tv.version)
            up == UpgradeLoop(dataVersionIndex, theiaVersionIndex)
            down == DowngradeLoop(dataVersionIndex, theiaVersionIndex)
            called == IF dataVersionIndex < theiaVersionIndex
                      THEN Callable(upgrading, up)
                      ELSE IF dataVersionIndex > theiaVersionIndex
                      THEN Callable(downgrading, down)
                      ELSE Callable(upgrading, <<>>)
            invoked == called.migrators
            kind == IF dataVersionIndex < theiaVersionIndex THEN "upgrade"
                    ELSE IF dataVersionIndex > theiaVersionIndex THEN "downgrade"
                    ELSE "same"
            set == setDataVersion(table, tv.version, fault)
        IN  IF called.panic THEN
                [run |-> MigRun("panic", dv.version, tv.version, invoked,
                                {i \in DOMAIN invoked : invoked[i][2] \in failing},
                                <<>>, FALSE),
                 table |-> table]
            ELSE
                [run |-> MigRun(kind, dv.version, tv.version, invoked,
                                {i \in DOMAIN invoked : invoked[i][2] \in failing},
                                <<insertVersion>>, ~set.err),
                 table |-> set.table]

\* whether the migrator-count check of main logs a mismatch
CountMismatch(upgrading, downgrading) ==
    LET expectedNumMigrators == Cardinality(DOMAIN versionToIndex) - 1
    IN  \/ Cardinality(DOMAIN upgrading) # expectedNumMigrators
        \/ Cardinality(DOMAIN downgrading) # expectedNumMigrators

\* main of a build with the given migrator lists: the count check logs and main
\* goes on to connectLoop, which tries the store once its variables are set
mainOfBuild(upgrading, downgrading, table, flows, fault, theiaVersion, row, failing) ==
    LET out == Migrate(upgrading, downgrading, table, flows, fault, theiaVersion,
                       row, failing)
        connected == ~connectLoop(fault).err
        dv == getDataVersion(table, flows, fault, row)
    IN  [out EXCEPT !.run.mismatch = CountMismatch(upgrading, downgrading),
                    !.run.connectTried = fault # "env",
                    !.run.rowRead = connected /\ dv.rowRead,
                    !.run.flowsChecked = connected /\ dv.flowsChecked]

\* main of the migrator binary as built
main(table, flows, fault, theiaVersion, row, failing) ==
    mainOfBuild(upgradingMigrators, downgradingMigrators, table, flows, fault,
                theiaVersion, row, failing)

(* ---- migrate.sh ---- *)
\* versions of the chart, oldest first; VERSION_TO_INDEX lists the first NumVersions
ShVersionNames == <<"0.1.0", "0.2.0", "0.3.0", "0.4.0", "0.5.0">>
ShKnown == {ShVersionNames[i] : i \in 1..NumVersions}
\* the index VERSION_TO_INDEX gives a version: grep finds no line for a version
\* that is not listed and the index is then the empty string
VERSION_TO_INDEX(version) ==
    IF version \in ShKnown
    THEN [found |-> TRUE,
          index |-> (CHOOSE i \in 1..NumVersions : ShVersionNames[i] = version) - 1]
    ELSE [found |-> FALSE, index |-> 0]
UPGRADING_MIGRATORS == [i \in 0..(NumVersions - 2) |-> <<"up", i>>]
DOWNGRADING_MIGRATORS == [i \in 0..(NumVersions - 2) |-> <<"down", i>>]

\* seq FIRST INCREMENT LAST
RECURSIVE seq(_, _, _)
seq(first, increment, limit) ==
    IF (increment > 0 /\ first <= limit) \/ (increment < 0 /\ first >= limit)
    THEN <<first>> \o seq(first + increment, increment, limit)
    ELSE <<>>

\* SHOW TABLES; empty when the client cannot reach the store
ShowTables(table, flows, fault) ==
    IF fault = "conn" THEN {}
    ELSE (IF table.exists THEN {"migrate_version"} ELSE {})
         \cup (IF flows THEN {"flows"} ELSE {})

\* checkDataVersion: the value of dataVersion, empty when there is no data schema
\* (the script keeps the version table to one row)
checkDataVersionLegacySecond(table, flows, fault) ==
    LET tables == ShowTables(table, flows, fault)
    IN  IF "migrate_version" \in tables
        THEN DataVersion(IF table.rows = <<>> THEN "" ELSE table.rows[1], FALSE, TRUE, FALSE)
        ELSE IF "flows" \in tables THEN DataVersion("0.2.0", FALSE, FALSE, TRUE)
        ELSE DataVersion("", FALSE, FALSE, TRUE)
\* the result also tells whether the version was selected from the version
\* table and whether the elif on flows was evaluated
checkDataVersion(table, flows, fault) ==
    LET tables == ShowTables(table, flows, fault)
    IN  IF "migrate_version" \in tables
        THEN DataVersion(IF table.rows = <<>> THEN "" ELSE table.rows[1], FALSE, TRUE, FALSE)
        ELSE IF "flows" \in tables THEN DataVersion("0.1.0", FALSE, FALSE, TRUE)
        ELSE DataVersion("", FALSE, FALSE, TRUE)

deleteVersions == "ALTER TABLE migrate_version DELETE"
createVersionTable == "CREATE TABLE migrate_version"
\* setDataVersion of migrate.sh: clear or create the table, then insert the version
sh_setDataVersion(table, flows, fault, version) ==
    IF "migrate_version" \in ShowTables(table, flows, fault)
    THEN [table |-> VersionTable(TRUE, <<version>>),
          writes |-> <<deleteVersions, insertVersion>>]
    ELSE [table |-> VersionTable(TRUE, <<version>>),
          writes |-> <<createVersionTable, insertVersion>>]

\* migrate of migrate.sh; an empty operand of -lt and -gt counts as 0, and an
\* empty first argument of seq is no argument (seq then counts from 1).
\* A migrator file that fails does not stop the script
migrate(table, flows, fault, theiaVersion, failing) ==
    LET checked == checkDataVersion(table, flows, fault)
        dataVersion == checked.version
        out ==
    IF dataVersion = "" THEN Returned("noschema", "", "", table)
    ELSE
        LET d == VERSION_TO_INDEX(dataVersion)
            t == VERSION_TO_INDEX(theiaVersion)
            dataVersionIndex == IF d.found THEN d.index ELSE 0
            theiaVersionIndex == IF t.found THEN t.index ELSE 0
            up == seq(IF d.found THEN d.index ELSE 1, 1, theiaVersionIndex - 1)
            down == seq(dataVersionIndex - 1, -1, theiaVersionIndex)
            invoked == IF dataVersionIndex < theiaVersionIndex
                       THEN [k \in 1..Len(up) |-> UPGRADING_MIGRATORS[up[k]]]
                       ELSE IF dataVersionIndex > theiaVersionIndex
                       THEN [k \in 1..Len(down) |-> DOWNGRADING_MIGRATORS[down[k]]]
                       ELSE <<>>
            kind == IF dataVersionIndex < theiaVersionIndex THEN "upgrade"
                    ELSE IF dataVersionIndex > theiaVersionIndex THEN "downgrade"
                    ELSE "same"
            set == sh_setDataVersion(table, flows, fault, theiaVersion)
        IN  [run |-> MigRun(kind, dataVersion, theiaVersion, invoked,
                            {i \in DOMAIN invoked : invoked[i][2] \in failing},
                            set.writes, TRUE),
             table |-> set.table]
    IN  [out EXCEPT !.run.rowRead = checked.rowRead,
                    !.run.flowsChecked = checked.flowsChecked]

(* ---- runs of the migrator ---- *)
\* a run that went through its steps without an error and recorded its target
Succeeded(r) ==
    r.kind \in {"upgrade", "downgrade", "same"} /\ r.wrote /\ r.failed = {}

\* the store the migrator is first run against: no data schema, the schema of
\* the first release (flows, no version table), or a schema whose version table
\* holds the version of the release that wrote it (a release this build knows,
\* or a later one)
MigInit ==
    /\ MonitorInit
    /\ idleRoundsToSkip = 2
    /\ impl \in {"go", "sh"}
    /\ \E names \in {IF impl = "go" THEN GoVersionNames ELSE ShVersionNames} :
        \/ migrate_version = NoVersionTable /\ flowsExists \in BOOLEAN
        \/ \E i \in 1..(NumVersions + 1) :
            /\ migrate_version = VersionTable(TRUE, <<names[i]>>)
            /\ flowsExists = TRUE
    /\ run = NoRun
    /\ runs = 0
    /\ poll = NoPoll
    /\ race = NoRace
    /\ cli = NoCli
    /\ sizeString = StorageSize
    /\ size = parseSize(sizeString)

\* a run that ended on an error main logs: a return before the migration steps,
\* or a version insert that timed out
Fatal(r) ==
    \/ r.kind \in {"connectLoop", "getDataVersion", "getTheiaVerstion",
                   "dataVersion", "theiaVersion"}
    \/ r.kind \in {"upgrade", "downgrade", "same"} /\ ~r.wrote

\* the end of a run started with target theiaVersion against a store with the
\* given fault; the record keeps the table as the run found it, and the data
\* version of the run before when that run was fatal
Finish(out, theiaVersion, fault) ==
    /\ migrate_version' = out.table
    /\ run' = [out.run EXCEPT
                 !.rowsBefore = migrate_version.rows,
                 !.existedBefore = migrate_version.exists,
                 !.fault = fault,
                 !.afterFatal = IF Fatal(run) THEN run.data ELSE "",
                 !.settledBefore = IF run.settled = theiaVersion THEN run.settled ELSE "",
                 !.settled = IF Succeeded(out.run) \/ run.settled = theiaVersion
                             THEN theiaVersion ELSE ""]
    /\ runs' = runs + 1
    /\ UNCHANGED <<impl, flowsExists, poll, race, cli, monitor>>

\* what the migrator binary can meet: the store answers everything, the
\* connection variables are unset, the store cannot be reached, fails the
\* version query, or rejects the insert
GoFaults == {"none", "env", "conn", "read", "write"}
\* THEIA_VERSION: a version the build knows, a later release's, or unset
GoTargets == GoKnown \cup {GoVersionNames[NumVersions + 1], ""}
\* the rows a scan of the version table may return first
FirstRows(table) == IF table.rows = <<>> THEN {""} ELSE SeqToSet(table.rows)

(* a run of the migrator binary *)
GoMigrate ==
    /\ impl = "go"
    /\ runs < MaxRuns
    /\ \E fault \in GoFaults, theiaVersion \in GoTargets,
          row \in FirstRows(migrate_version) :
        \E failing \in IF fault = "none" THEN SUBSET (0..(NumVersions - 2)) ELSE {{}} :
            Finish(main(migrate_version, flowsExists, fault, theiaVersion, row, failing),
                   theiaVersion, fault)

(* a run of migrate.sh; .Chart.Version is a version of VERSION_TO_INDEX *)
ShMigrate ==
    /\ impl = "sh"
    /\ runs < MaxRuns
    /\ \E fault \in {"none", "conn"}, theiaVersion \in ShKnown :
        \E failing \in IF fault = "none" THEN SUBSET (0..(NumVersions - 2)) ELSE {{}} :
            Finish(migrate(migrate_version, flowsExists, fault, theiaVersion, failing),
                   theiaVersion, fault)

MigNext ==
    \/ GoMigrate
    \/ ShMigrate

MigSpec == MigInit /\ [][MigNext]_vars

(* a run of a migrator binary built with a migrator list that is one short *)
(* of what its version table needs                                         *)
GoMigrateMiscounted ==
    /\ impl = "go"
    /\ runs < MaxRuns
    /\ \E numUp \in (NumVersions - 2)..(NumVersions - 1),
          numDown \in (NumVersions - 2)..(NumVersions - 1) :
        /\ numUp < NumVersions - 1 \/ numDown < NumVersions - 1
        /\ \E fault \in {"none", "env", "conn"}, theiaVersion \in GoTargets,
              row \in FirstRows(migrate_version) :
            Finish(mainOfBuild([i \in 0..(numUp - 1) |-> upgradingMigrators[i]],
                               [i \in 0..(numDown - 1) |-> downgradingMigrators[i]],
                               migrate_version, flowsExists, fault, theiaVersion, row, {}),
                   theiaVersion, fault)

\* the runs of miscounted builds of the binary
BuildInit == MigInit /\ impl = "go"
BuildSpec == BuildInit /\ [][GoMigrateMiscounted]_vars

(***************************************************************************)
(* Two processes of the migrator binary on one store: main takes no lock,  *)
(* so the statements of the two interleave                                  *)
(***************************************************************************)
RaceInit == MigInit /\ impl = "go" /\ flowsExists

Active(pr) == pr.pc \notin {"idle", "done"}
RaceStep(p, pr) ==
    /\ race' = [race EXCEPT !.procs[p] = pr]
    /\ UNCHANGED <<impl, flowsExists, run, runs, poll, cli, monitor>>

(* a process starts and connects *)
RaceConnect ==
    \E p \in Procs, theiaVersion \in GoKnown :
        /\ race.procs[p].pc = "idle"
        /\ race' = [race EXCEPT
                      !.procs[p] = Proc("connected", theiaVersion, "", <<>>, FALSE),
                      !.overlapped = @ \/ \E q \in Procs \ {p} : Active(race.procs[q])]
        /\ UNCHANGED <<impl, migrate_version, flowsExists, run, runs, poll, cli, monitor>>

(* getDataVersion, and the returns of main before the migration steps *)
RaceGetDataVersion ==
    \E p \in Procs, row \in FirstRows(migrate_version) :
        LET pr == race.procs[p]
            dv == getDataVersion(migrate_version, flowsExists, "none", row)
            returns == dv.err \/ dv.version = "not found" \/ ~LookupOk(dv.version)
        IN  /\ pr.pc = "connected"
            /\ RaceStep(p, [pr EXCEPT !.pc = IF returns THEN "done" ELSE "read",
                                      !.data = dv.version])
            /\ UNCHANGED migrate_version

(* the upgrading or the downgrading loop *)
RaceMigrate ==
    \E p \in Procs :
        LET pr == race.procs[p]
            dataVersionIndex == Lookup(pr.data)
            theiaVersionIndex == Lookup(pr.target)
            called == IF dataVersionIndex < theiaVersionIndex
                      THEN Callable(upgradingMigrators,
                                    UpgradeLoop(dataVersionIndex, theiaVersionIndex))
                      ELSE IF dataVersionIndex > theiaVersionIndex
                      THEN Callable(downgradingMigrators,
                                    DowngradeLoop(dataVersionIndex, theiaVersionIndex))
                      ELSE Callable(upgradingMigrators, <<>>)
        IN  /\ pr.pc = "read"
            /\ RaceStep(p, [pr EXCEPT !.pc = "migrated", !.invoked = called.migrators])
            /\ UNCHANGED migrate_version

(* setDataVersion, and the end of main *)
RaceSetDataVersion ==
    \E p \in Procs :
        LET pr == race.procs[p]
            set == setDataVersion(migrate_version, pr.target, "none")
        IN  /\ pr.pc = "migrated"
            /\ migrate_version' = set.table
            /\ RaceStep(p, [pr EXCEPT !.pc = "done", !.wrote = ~set.err])

RaceNext ==
    \/ RaceConnect
    \/ RaceGetDataVersion
    \/ RaceMigrate
    \/ RaceSetDataVersion

RaceSpec == RaceInit /\ [][RaceNext]_vars

(***************************************************************************)
(* theiactl policyreco start and check: the pre-check of the cluster, then *)
(* the request to the API server                                            *)
(***************************************************************************)
MaxPods == 2
PodPhases == {"Running", "Pending"}
PodLists == UNION {[1..k -> PodPhases] : k \in 0..MaxPods}

\* CheckClickHousePod: the error it returns, "" for nil
CheckClickHousePod(clickHousePods, listFault) ==
    IF listFault = "clickhouse" THEN "error when finding the ClickHouse Pod"
    ELSE IF Len(clickHousePods) < 1 THEN "can't find the ClickHouse Pod"
    ELSE IF ~\E i \in DOMAIN clickHousePods : clickHousePods[i] = "Running"
    THEN "can't find a running ClickHouse Pod"
    ELSE ""

\* PolicyRecoPreCheck: the error it returns, "" for nil; it calls
\* CheckClickHousePod and drops what that returns
PolicyRecoPreCheck(sparkPods, clickHousePods, listFault) ==
    IF listFault = "spark" THEN "error when finding the policy-reco-spark-operator Pod"
    ELSE IF sparkPods < 1 THEN "can't find the policy-reco-spark-operator Pod"
    ELSE LET dropped == CheckClickHousePod(clickHousePods, listFault) IN ""

CliInit ==
    /\ MonitorInit
    /\ idleRoundsToSkip = 2
    /\ impl = "go"
    /\ migrate_version = NoVersionTable
    /\ flowsExists = TRUE
    /\ run = NoRun
    /\ runs = 0
    /\ poll = NoPoll
    /\ race = NoRace
    /\ sizeString = StorageSize
    /\ size = parseSize(sizeString)
    /\ \E cmd \in {"start", "check"}, sparkPods \in 0..MaxPods, clickHousePods \in PodLists,
          listFault \in {"none", "spark", "clickhouse"} :
        cli = Cli(cmd, sparkPods, clickHousePods, listFault)

CliStep(next) ==
    /\ cli' = next
    /\ UNCHANGED <<impl, migrate_version, flowsExists, run, runs, poll, race, monitor>>

(* RunE calls PolicyRecoPreCheck and returns its error *)
CliPreCheck ==
    /\ cli.pc = "precheck"
    /\ LET err == PolicyRecoPreCheck(cli.sparkPods, cli.clickHousePods, cli.listFault)
       IN  CliStep([cli EXCEPT !.err = err,
                               !.pc = IF err # "" THEN "returned" ELSE "checked"])

(* startCmd posts the SparkApplication *)
CliPost ==
    /\ cli.pc = "checked"
    /\ cli.cmd = "start"
    /\ CliStep([cli EXCEPT !.requests = Append(@, "POST sparkapplications"),
                           !.pc = "returned"])

(* checkCmd gets the SparkApplication and reads its state *)
CliGet ==
    /\ cli.pc = "checked"
    /\ cli.cmd = "check"
    /\ CliStep([cli EXCEPT !.requests = Append(@, "GET sparkapplications"),
                           !.pc = "returned"])

CliNext ==
    \/ CliPreCheck
    \/ CliPost
    \/ CliGet

CliSpec == CliInit /\ [][CliNext]_vars

(***************************************************************************)
(* The retry loops: wait.PollImmediate calls the condition at once and then *)
(* on every tick of the interval until the condition is done or the timeout *)
(* has elapsed; a tick and the timeout that fall together race              *)
(***************************************************************************)
\* seconds
connTimeout == 60
connRetryInterval == 10
queryTimeout == 10
queryRetryInterval == 1
\* connRetryInterval and connTimeout of theiactl's connectClickHouse and
\* ConnectClickHouse
theiactl_connRetryInterval == 1
theiactl_connTimeout == 10

ConnectFns == {"connectLoop", "connectClickHouse", "ConnectClickHouse"}
QueryFns == {"setDataVersion", "getDataVersion", "getDataVersion.flows"}
PollFns == ConnectFns \cup QueryFns

\* what an attempt can meet: sql.Open fails, Ping fails with a ClickHouse
\* exception or with a transport error; the statement fails, and the version
\* query also with "doesn't exist"
Outcomes(fn) ==
    IF fn \in ConnectFns THEN {"ok", "open", "exception", "transport"}
    ELSE IF fn = "getDataVersion" THEN {"ok", "doesn't exist", "failed"}
    ELSE {"ok", "failed"}

Attempt(done, connErr, version) == [done |-> done, connErr |-> connErr, version |-> version]

\* the condition connectLoop polls: a failure is logged and not kept
connectLoopCondition(outcome, connErr) == Attempt(outcome = "ok", connErr, "")
\* the condition connectClickHouse and ConnectClickHouse poll: connErr keeps
\* the failure
connectClickHouseCondition(outcome, connErr) ==
    Attempt(outcome = "ok", IF outcome = "ok" THEN connErr ELSE outcome, "")
setDataVersionConditionNeverDone(outcome) == Attempt(FALSE, "", "")
\* the condition setDataVersion polls: the INSERT
setDataVersionCondition(outcome) == Attempt(outcome = "ok", "", "")
\* the condition getDataVersion polls: the SELECT; a missing table ends the
\* poll with version "not found"
getDataVersionCondition(outcome) ==
    IF outcome = "ok" THEN Attempt(TRUE, "", "row")
    ELSE IF outcome = "doesn't exist" THEN Attempt(TRUE, "", "not found")
    ELSE Attempt(FALSE, "", "")
\* the condition of getDataVersion's count of flows
flowsCondition(outcome) ==
    IF outcome = "ok" THEN Attempt(TRUE, "", "v0.1.0") ELSE Attempt(FALSE, "", "not found")

Condition(fn, outcome, connErr) ==
    CASE fn = "connectLoop" -> connectLoopCondition(outcome, connErr)
      [] fn \in {"connectClickHouse", "ConnectClickHouse"} ->
            connectClickHouseCondition(outcome, connErr)
      [] fn = "setDataVersion" -> setDataVersionCondition(outcome)
      [] fn = "getDataVersion" -> getDataVersionCondition(outcome)
      [] fn = "getDataVersion.flows" -> flowsCondition(outcome)

\* the error fn returns when the poll timed out: the timeout it names and the
\* failure it carries
TimeoutError(after, cause) == [after |-> after, cause |-> cause]
ErrWaitTimeout == TimeoutError(0, "")
connectLoopError(connErr) == TimeoutError(connTimeout, "")
connectClickHouseError(connErr) == TimeoutError(theiactl_connTimeout, connErr)
ErrorOf(fn, connErr) ==
    CASE fn = "connectLoop" -> connectLoopError(connErr)
      [] fn \in {"connectClickHouse", "ConnectClickHouse"} -> connectClickHouseError(connErr)
      [] OTHER -> ErrWaitTimeout

(* fn calls wait.PollImmediate *)
PollStart ==
    /\ poll.state # "polling"
    /\ \E fn \in PollFns :
        poll' = CASE fn = "connectLoop" -> Poll(fn, connRetryInterval, connTimeout)
                  [] fn \in {"connectClickHouse", "ConnectClickHouse"} ->
                        Poll(fn, theiactl_connRetryInterval, theiactl_connTimeout)
                  [] OTHER -> Poll(fn, queryRetryInterval, queryTimeout)
    /\ UNCHANGED <<impl, migrate_version, flowsExists, run, runs, race, cli, monitor>>

(* a call of the condition *)
PollCondition ==
    /\ poll.state = "polling"
    /\ poll.due
    /\ \E outcome \in Outcomes(poll.fn) :
        LET c == Condition(poll.fn, outcome, poll.connErr)
        IN  poll' = [poll EXCEPT
                       !.attempts = @ + 1,
                       !.due = FALSE,
                       !.outcome = outcome,
                       !.connErr = c.connErr,
                       !.version = IF c.version # "" THEN c.version ELSE @,
                       !.state = IF c.done THEN "done" ELSE @,
                       !.failure = IF outcome = "ok" THEN @ ELSE outcome,
                       !.successes = IF outcome = "ok" THEN @ + 1 ELSE @]
    /\ UNCHANGED <<impl, migrate_version, flowsExists, run, runs, race, cli, monitor>>

(* the next tick of the interval *)
PollTick ==
    /\ poll.state = "polling"
    /\ ~poll.due
    /\ poll.elapsed + poll.interval <= poll.timeout
    /\ poll' = [poll EXCEPT !.elapsed = @ + poll.interval, !.due = TRUE]
    /\ UNCHANGED <<impl, migrate_version, flowsExists, run, runs, race, cli, monitor>>

(* the timeout elapses before the next call of the condition *)
PollTimeout ==
    /\ poll.state = "polling"
    /\ ~poll.due
    /\ poll.elapsed + poll.interval >= poll.timeout
    /\ poll' = [poll EXCEPT !.elapsed = poll.timeout, !.state = "timeout",
                            !.err = ErrorOf(poll.fn, poll.connErr)]
    /\ UNCHANGED <<impl, migrate_version, flowsExists, run, runs, race, cli, monitor>>

PollNext ==
    \/ PollStart
    \/ PollCondition
    \/ PollTick
    \/ PollTimeout

\* the retry loops of one process, one after the other
PollInit == Init /\ idleRoundsToSkip = 2
PollSpec == PollInit /\ [][PollNext]_vars

(***************************************************************************)
(* parseSize on every text of Texts                                        *)
(***************************************************************************)
SizeInit ==
    /\ MonitorInit
    /\ idleRoundsToSkip = 2
    /\ impl = "go"
    /\ migrate_version = NoVersionTable
    /\ flowsExists = TRUE
    /\ run = NoRun
    /\ runs = 0
    /\ poll = NoPoll
    /\ race = NoRace
    /\ cli = NoCli
    /\ sizeString \in Texts
    /\ size = NoSize

(* the monitor parses STORAGE_SIZE *)
ParseSize ==
    /\ ~size.parsed
    /\ size' = parseSize(sizeString)
    /\ UNCHANGED <<allocatedSpace, threshold, deletePercentage, idleRoundsToSkip,
                   sizeString, roundsRemaining, store, clock, last, before,
                   answers, sinceEvict, evictedAt, migrator>>

SizeSpec == SizeInit /\ [][ParseSize]_vars

(***************************************************************************)
(* Properties of the monitor                                               *)
(***************************************************************************)
Views == SeqToSet(mvNames)
\* the last round obtained both samples
Sampled == last.kind \in {"noaction", "nocutoff", "resolverfailed", "evicted"}
\* the sampled free space is below threshold * allocatedSpace
Warranted == last.free * threshold.den < threshold.num * allocatedSpace
\* the last round went on to the eviction path (it asked for the row count)
Triggered == \E i \in DOMAIN last.log : last.log[i].op = "count"
DeletesOn(t) == {i \in DOMAIN last.log : last.log[i].op = "delete" /\ last.log[i].table = t}
Deletes == {i \in DOMAIN last.log : last.log[i].op = "delete"}
Boundaries == {i \in DOMAIN last.log : last.log[i].op = "boundary"}
FloorOfRows == (Len(before[tableName]) * deletePercentage.num) \div deletePercentage.den
Retained(rows, c) == SelectSeq(rows, LAMBDA t : t >= c)

\* C1: a round that sampled triggers eviction iff freeBytes < threshold *
\* allocatedSpace, not at the boundary nor above it, whatever totalBytes and
\* the sum of part sizes are.
C1_TriggerIffBelowThreshold ==
    Sampled => (Triggered <=> last.free * threshold.den < threshold.num * allocatedSpace)
\* at the boundary, with the parts filling the allocated space: no eviction
C1_Witness ==
    /\ last.kind = "noaction"
    /\ last.free * threshold.den = threshold.num * allocatedSpace
    /\ last.parts = allocatedSpace
    /\ ~Triggered

\* C2: a round that resolved a cutoff issues exactly one delete for the base
\* table and one for each view, all with the cutoff read from the base table.
C2_OneDeletePerTableSameCutoff ==
    last.kind = "evicted" =>
        /\ \A t \in AllTables : Cardinality(DeletesOn(t)) = 1
        /\ Cardinality(Deletes) = Cardinality(AllTables)
        /\ \E b \in Boundaries :
            /\ last.log[b].table = tableName
            /\ \A i \in Deletes : last.log[i].arg = before[tableName][last.log[b].arg + 1]
C2_Witness ==
    /\ last.kind = "evicted"
    /\ last.failed = {}
    /\ \E v \in Views : Len(before[v]) < Len(before[tableName])
    /\ \A t \in AllTables : Cardinality(DeletesOn(t)) = 1

\* C3: a round in which eviction is not warranted issues the disk-status and
\* the part-size query and nothing else, and leaves every table unchanged.
C3_NoTriggerNoStatements ==
    (Sampled /\ ~Warranted) =>
        /\ last.log = <<diskQuery, partsQuery>>
        /\ store = before
C3_Witness ==
    /\ Sampled /\ ~Warranted
    /\ last.free > 0
    /\ Len(store[tableName]) >= 2
    /\ Deletes = {}

\* C4: an evicting round issues disk sample, part-size sample, base-table row
\* count, boundary-row read, the delete on the base table, then the delete on
\* each view in configured order.
C4_StatementOrder ==
    last.kind = "evicted" =>
        /\ Len(last.log) = 5 + Len(mvNames)
        /\ last.log[1] = diskQuery
        /\ last.log[2] = partsQuery
        /\ last.log[3] = countQuery(tableName)
        /\ last.log[4].op = "boundary"
        /\ last.log[5] = Stmt("delete", tableName, last.cutoff)
        /\ \A i \in 1..Len(mvNames) : last.log[5 + i] = Stmt("delete", mvNames[i], last.cutoff)
C4_Witness ==
    /\ last.kind = "evicted"
    /\ last.log[5].table = tableName
    /\ last.log[5 + Len(mvNames)].table = mvNames[Len(mvNames)]

\* C5: the boundary row is read from the base table at OFFSET
\* floor(N * deletePercentage), N the base table's row count, and its
\* insertion time is the cutoff of the round's deletes.
C5_CutoffAtFloorOffset ==
    /\ \A i \in DOMAIN last.log :
          last.log[i].op \in {"count", "boundary"} => last.log[i].table = tableName
    /\ \A b \in Boundaries : last.log[b].arg = FloorOfRows
    /\ last.kind = "evicted" =>
          /\ last.count = Len(before[tableName])
          /\ last.cutoff = before[tableName][FloorOfRows + 1]
          /\ \A i \in Deletes : last.log[i].arg = before[tableName][FloorOfRows + 1]
C5_Witness ==
    /\ last.kind = "evicted"
    /\ last.count = 3
    /\ FloorOfRows = 1
    /\ before[tableName] = <<1, 2, 3>>
    /\ last.cutoff = 2
    /\ \E v \in Views : Len(before[v]) = 2

\* C6: when eviction is warranted and floor(rowCount * deletePercentage) is 0,
\* the round ends with the no-cutoff outcome: no boundary-row query, no
\* delete, every table unchanged.
C6_ZeroOffsetNoCutoff ==
    (Sampled /\ Warranted /\ FloorOfRows = 0) =>
        /\ last.kind \in {"nocutoff", "resolverfailed"}
        /\ last.kind = "resolverfailed" => Len(last.log) = 3
        /\ Boundaries = {}
        /\ Deletes = {}
        /\ store = before
C6_Witness ==
    /\ last.kind = "nocutoff"
    /\ Warranted
    /\ Len(before[tableName]) = 1
    /\ FloorOfRows = 0
    /\ Boundaries = {}

\* C7: a delete that succeeded with cutoff c leaves in the table exactly the
\* rows whose insertion time is >= c: older rows are gone, the boundary row
\* and newer rows stay.
C7_ExclusiveCutoff ==
    last.kind = "evicted" =>
        \A t \in AllTables \ last.failed : store[t] = Retained(before[t], last.cutoff)
C7_Witness ==
    /\ last.kind = "evicted"
    /\ tableName \notin last.failed
    /\ \E i \in DOMAIN before[tableName] : before[tableName][i] < last.cutoff
    /\ \E i \in DOMAIN store[tableName] : store[tableName][i] = last.cutoff
    /\ \E i \in DOMAIN store[tableName] : store[tableName][i] > last.cutoff

\* C8: after an eviction round whose deletes all succeeded, no view holds a row
\* older than the oldest row the base table retained, and every view still
\* holds each of its rows inserted at or after the cutoff.
C8_RetentionConsistent ==
    (last.kind = "evicted" /\ last.failed = {}) =>
        /\ store[tableName] # <<>>
        /\ \A v \in Views :
            /\ \A i \in DOMAIN store[v] : store[v][i] >= store[tableName][1]
            /\ \A i \in DOMAIN before[v] :
                  before[v][i] >= last.cutoff =>
                      Cardinality({j \in DOMAIN store[v] : store[v][j] = before[v][i]})
                        = Cardinality({j \in DOMAIN before[v] : before[v][j] = before[v][i]})
C8_Witness ==
    /\ last.kind = "evicted" /\ last.failed = {}
    /\ \A v \in Views :
        /\ \E i \in DOMAIN before[v] : before[v][i] < last.cutoff
        /\ store[v] # <<>>
    /\ \E v \in Views : Len(before[v]) # Len(before[tableName])

\* C9: a failed delete does not stop the round: every table still gets its one
\* delete, in order; the tables whose delete failed are unchanged, the others
\* are pruned, and the monitor has a next round.
C9_FailureDoesNotStopRound ==
    (last.kind = "evicted" /\ last.failed # {}) =>
        /\ \A t \in AllTables : Cardinality(DeletesOn(t)) = 1
        /\ \A i, j \in Deletes :
              (i < j /\ last.log[j].table = tableName) => FALSE
        /\ \A t \in last.failed : store[t] = before[t]
        /\ \A t \in AllTables \ last.failed : store[t] = Retained(before[t], last.cutoff)
        /\ ENABLED (IdleRound \/ SamplingRound)
C9_Witness ==
    /\ last.kind = "evicted"
    /\ last.failed = {tableName}
    /\ \A v \in Views : Cardinality(DeletesOn(v)) = 1 /\ store[v] # before[v]
    /\ store[tableName] = before[tableName]

C11_DiskFailureAbandonsRound ==
    last.fault = "disk" =>
        /\ last.log = <<diskQuery>>
        /\ store = before
        /\ roundsRemaining = 0
        /\ ~ENABLED IdleRound
        /\ ENABLED SamplingRound
C11_Witness ==
    /\ last.fault = "disk"
    /\ idleRoundsToSkip > 0
    /\ Len(store[tableName]) = MaxRows
    /\ last.log = <<diskQuery>>

\* C12: a next round is enabled in every reachable state, whatever failed,
\* and with the round timer fair the monitor samples disk usage again and
\* again.
C12_NoTerminalState ==
    /\ [](ENABLED MonitorRound)
    /\ []<>(last.log # <<>> /\ last.log[1] = diskQuery)
C12_Witness ==
    /\ last.kind = "evicted"
    /\ last.failed = AllTables
    /\ last.idleBefore = idleRoundsToSkip
    /\ ENABLED MonitorRound

(***************************************************************************)
(* Properties of the migrator                                              *)
(***************************************************************************)
VersionNames == IF impl = "go" THEN GoVersionNames ELSE ShVersionNames
KnownVersions == {VersionNames[i] : i \in 1..NumVersions}
\* index(v) of a known version
Index(v) == (CHOOSE i \in 1..NumVersions : VersionNames[i] = v) - 1
\* the run got to the migration steps
Ran == run.kind \in {"upgrade", "downgrade", "same"}
\* the run resolved two known versions
Resolved == Ran /\ run.data \in KnownVersions /\ run.target \in KnownVersions

\* C13: when index(dataVersion) < index(targetVersion) the run invokes the forward
\* migrators of the steps index(dataVersion) .. index(targetVersion)-1, each once,
\* in increasing order, and no backward migrator
C13_ForwardSteps ==
    (Resolved /\ Index(run.data) < Index(run.target)) =>
        LET d == Index(run.data)
            t == Index(run.target)
        IN  /\ Len(run.invoked) = t - d
            /\ \A k \in 1..(t - d) : run.invoked[k] = <<"up", d + k - 1>>
C13_Witness ==
    /\ Resolved
    /\ impl = "go"
    /\ Index(run.data) = 0
    /\ Index(run.target) = NumVersions - 1
    /\ Len(run.invoked) = NumVersions - 1
    /\ run.invoked[1] = <<"up", 0>>

\* C14: when index(dataVersion) > index(targetVersion) the run invokes the backward
\* migrators of the steps index(dataVersion)-1 down to index(targetVersion), each
\* once, in decreasing order, and no forward migrator
C14_BackwardSteps ==
    (Resolved /\ Index(run.data) > Index(run.target)) =>
        LET d == Index(run.data)
            t == Index(run.target)
        IN  /\ Len(run.invoked) = d - t
            /\ \A k \in 1..(d - t) : run.invoked[k] = <<"down", d - k>>

\* C15: after an upgrade or a downgrade in which every step succeeded and the
\* version was recorded, a read of the version table returns the target version
C15_StoredVersionIsTarget ==
    (Succeeded(run) /\ run.kind \in {"upgrade", "downgrade"}) =>
        FirstRows(migrate_version) = {run.target}

\* C16: a run whose data version equals its target invokes no migrator, issues no
\* write on the version table and leaves its rows as they were
C16_SameVersionNoOp ==
    (Resolved /\ run.data = run.target) =>
        /\ run.invoked = <<>>
        /\ run.writes = <<>>
        /\ migrate_version.rows = run.rowsBefore

\* C17: once the version table exists it holds exactly one row
C17_SingleVersionRow ==
    migrate_version.exists => Len(migrate_version.rows) = 1

\* C18: once a run has succeeded, every later run with the same target resolves
\* the data version to the target and invokes no migrator
C18_StepsAppliedOnce ==
    (run.settledBefore # "" /\ run.data # "") =>
        /\ run.data = run.settledBefore
        /\ run.invoked = <<>>

\* C19: when the stored data version or THEIA_VERSION is not a key of
\* versionToIndex, the binary invokes no migrator and issues no write on the
\* version table, whose rows stay as they were
C19_UnrecognizedVersionAborts ==
    (impl = "go" /\ run.kind # "none" /\ run.data # ""
       /\ (run.data \notin GoKnown \/ run.target \notin GoKnown)) =>
        /\ run.invoked = <<>>
        /\ run.writes = <<>>
        /\ migrate_version.rows = run.rowsBefore
C19_Witness ==
    /\ impl = "go"
    /\ run.kind = "theiaVersion"
    /\ run.data \in GoKnown
    /\ run.target = GoVersionNames[NumVersions + 1]
    /\ run.writes = <<>>
    /\ Len(migrate_version.rows) > 1

\* C20: when a migrator step returns an error, no later step is invoked and the
\* version table is not written
C20_WriteOnlyAfterAllSteps ==
    run.failed # {} =>
        /\ run.writes = <<>>
        /\ \A i \in run.failed : i = Len(run.invoked)

\* C21: a run that ends in a fatal condition leaves the version table as it
\* found it, and the run after it resolves the same data version
C21_FatalLeavesVersion ==
    /\ Fatal(run) =>
        /\ migrate_version.exists = run.existedBefore
        /\ migrate_version.rows = run.rowsBefore
    /\ (run.afterFatal # "" /\ run.data # "") => run.data = run.afterFatal
\* a fatal run on its own leaves the table as it found it
FatalRunLeavesTable ==
    Fatal(run) =>
        /\ migrate_version.exists = run.existedBefore
        /\ migrate_version.rows = run.rowsBefore

\* C22: when the count of upgrading or downgrading migrators differs from the
\* count of versions less one, the run stops before any connection is tried,
\* invokes no migrator and writes no version
C22_CountMismatchIsFatal ==
    run.mismatch =>
        /\ ~run.connectTried
        /\ run.invoked = <<>>
        /\ run.writes = <<>>

\* the run found no version table
NoTableBefore == run.kind # "none" /\ ~run.existedBefore

\* C23: a run against a store with neither the version table nor the flows
\* table invokes no migrator, issues no statement on the version table and
\* leaves the store without a version table
C23_NoSchemaNoOp ==
    (NoTableBefore /\ ~flowsExists) =>
        /\ run.invoked = <<>>
        /\ run.writes = <<>>
        /\ migrate_version = NoVersionTable
C23_Witness ==
    /\ NoTableBefore
    /\ ~flowsExists
    /\ run.fault = "none"
    /\ run.flowsChecked
    /\ runs = MaxRuns
    /\ migrate_version = NoVersionTable

\* C24: a run that finds no version table but the flows table resolves the
\* data version of index 0; a run that read a version row never checks flows,
\* and a run that checks flows on a store it can reach found no version table
C24_LegacyIsEarliest ==
    /\ (NoTableBefore /\ flowsExists /\ run.data # "") => run.data = VersionNames[1]
    /\ run.flowsChecked => ~run.rowRead
    /\ (run.flowsChecked /\ run.fault = "none") => ~run.existedBefore
C24_Witness ==
    /\ NoTableBefore
    /\ flowsExists
    /\ run.flowsChecked
    /\ Resolved
    /\ run.data = VersionNames[1]
    /\ Index(run.target) = NumVersions - 1
    /\ Len(run.invoked) = NumVersions - 1

\* C25: a run that starts from the legacy state on a store that answers
\* everything, and whose steps succeed, ends with the version table existing
\* and holding the target version
C25_VersionTableCreatedLazily ==
    (NoTableBefore /\ flowsExists /\ run.fault = "none" /\ run.failed = {}
       /\ run.kind \in {"upgrade", "downgrade", "same"}) =>
        migrate_version = VersionTable(TRUE, <<run.target>>)

\* the most calls of the condition a poll can make: one at once and one per tick
MaxAttempts(p) == p.timeout \div p.interval + 1
\* the poll returned on a call whose statement succeeded, and that call is the
\* only such call and the last call
ReturnedFirstSuccess(p) == p.outcome = "ok" /\ p.successes = 1

\* C26: connecting is retried every interval until the timeout: it returns on
\* the first attempt whose open and ping succeed and attempts nothing after it;
\* when the timeout elapses with no such attempt, the error it returns names
\* the timeout and carries the last underlying failure; it makes at most
\* timeout/interval + 1 attempts
C26_ConnectRetry ==
    poll.fn \in ConnectFns =>
        /\ poll.attempts <= MaxAttempts(poll)
        /\ poll.state = "done" => ReturnedFirstSuccess(poll)
        /\ poll.state # "done" => poll.successes = 0
        /\ poll.state = "timeout" =>
            /\ poll.elapsed = poll.timeout
            /\ poll.err.after = poll.timeout
            /\ poll.failure # ""
            /\ poll.err.cause = poll.failure

\* C27: the version insert and the version query are retried every
\* queryRetryInterval within queryTimeout: the call returns on the first
\* attempt that is done, with what that attempt read, and attempts nothing
\* after it, so at most one INSERT succeeds; the timeout error is returned
\* only once queryTimeout has elapsed without such an attempt
C27_QueryRetry ==
    poll.fn \in QueryFns =>
        /\ poll.attempts <= MaxAttempts(poll)
        /\ poll.successes <= 1
        /\ poll.successes = 1 => poll.state = "done" /\ poll.outcome = "ok"
        /\ (poll.state = "done" /\ poll.fn = "setDataVersion") => ReturnedFirstSuccess(poll)
        /\ (poll.state = "done" /\ poll.fn = "getDataVersion") =>
                poll.version = IF poll.outcome = "ok" THEN "row" ELSE "not found"
        /\ (poll.state = "done" /\ poll.fn = "getDataVersion.flows") => poll.version = "v0.1.0"
        /\ poll.state = "timeout" =>
            /\ poll.elapsed = queryTimeout
            /\ poll.successes = 0
            /\ poll.err = ErrWaitTimeout
C27_Witness ==
    /\ poll.fn = "setDataVersion"
    /\ poll.state = "done"
    /\ poll.attempts > 1
    /\ poll.failure = "failed"
    /\ poll.successes = 1

\* a whole number, or a whole number, a point and a fraction
AllDigits(n) == n # <<>> /\ \A i \in DOMAIN n : IsDigit(n[i])
IsNumber(n) ==
    \/ AllDigits(n)
    \/ \E k \in DOMAIN n :
        /\ n[k] = "."
        /\ AllDigits(SubSeq(n, 1, k - 1))
        /\ AllDigits(SubSeq(n, k + 1, Len(n)))
\* the text is <number><optional unit>
WellFormed(text) ==
    \E k \in 0..Len(text) :
        IsNumber(SubSeq(text, 1, k)) /\ SubSeq(text, k + 1, Len(text)) \in UnitNames
\* the multiplier of a unit, as base and power
Multiplier(unit) ==
    CASE unit = <<>> -> <<1000, 0>>
      [] unit = <<"K">> -> <<1000, 1>>
      [] unit = <<"M">> -> <<1000, 2>>
      [] unit = <<"G">> -> <<1000, 3>>
      [] unit = <<"T">> -> <<1000, 4>>
      [] unit = <<"K", "i">> -> <<1024, 1>>
      [] unit = <<"M", "i">> -> <<1024, 2>>
      [] unit = <<"G", "i">> -> <<1024, 3>>
      [] unit = <<"T", "i">> -> <<1024, 4>>
ValueOf(n) == Normal([i \in DOMAIN n |-> DigitOf(n[i])])
Scaled(n, unit) == TimesPower(ValueOf(n), Multiplier(unit)[1], Multiplier(unit)[2])
Zeros(f) == [i \in 1..f |-> 0]

\* C28: parseSize gives a whole number with a binary unit the number times
\* 1024^n, with a decimal unit the number times 1000^n, with no unit the number
\* itself; a number with a fraction whose product is whole gives that product;
\* "500Mi" is 500 * 1024^2 and "2.5G" is 2.5 * 1000^3; a text that is not
\* <number><optional unit> gives InvalidSizeFormat, and only such a text does
C28_ParseSize ==
    size.parsed =>
        /\ size.err <=> ~WellFormed(sizeString)
        /\ size.err => size = InvalidSizeFormat
        /\ \A k \in 1..Len(sizeString) :
            LET n == SubSeq(sizeString, 1, k)
                unit == SubSeq(sizeString, k + 1, Len(sizeString))
            IN  /\ (AllDigits(n) /\ unit \in UnitNames) => size.bytes = Scaled(n, unit)
                /\ (AllDigits(n) /\ unit = <<>>) => size.bytes = ValueOf(n)
                /\ \A j \in 2..(k - 1) :
                    LET whole == SubSeq(n, 1, j - 1)
                        frac == SubSeq(n, j + 1, k)
                    IN  (/\ n[j] = "." /\ AllDigits(whole) /\ AllDigits(frac)
                         /\ unit \in UnitNames
                         /\ \E b \in {Scaled(whole \o frac, unit)} :
                              /\ Len(b) > Len(frac)
                              /\ SubSeq(b, Len(b) - Len(frac) + 1, Len(b)) = Zeros(Len(frac)))
                        => size.bytes \o Zeros(Len(frac)) = Scaled(whole \o frac, unit)
        /\ sizeString = <<"5", "0", "0", "M", "i">> => size.bytes = <<5, 2, 4, 2, 8, 8, 0, 0, 0>>
        /\ sizeString = <<"2", ".", "5", "G">> => size.bytes = <<2, 5, 0, 0, 0, 0, 0, 0, 0, 0>>
C28_Witness ==
    /\ size.parsed
    /\ sizeString = <<"2", ".", "5", "G">>
    /\ size = Size(<<2, 5, 0, 0, 0, 0, 0, 0, 0, 0>>, FALSE)

\* a view of the store st holds a row older than every row of the base table
Behind(st, v) ==
    \E i \in DOMAIN st[v] : \A j \in DOMAIN st[tableName] : st[v][i] < st[tableName][j]

\* C29: after an eviction round whose deletes all succeeded no view holds a
\* row older than the oldest row the base table retains, whatever an earlier
\* round left behind in the view; and the cutoff a round resolves from the
\* base table is never earlier than the cutoff of the eviction round before
C29_ViewsCatchUp ==
    last.kind = "evicted" =>
        /\ last.failed = {} =>
            /\ store[tableName] # <<>>
            /\ \A v \in Views : ~Behind(store, v)
            /\ \A t \in AllTables : \A i \in DOMAIN store[t] : store[t][i] >= last.cutoff
        /\ last.cutoffBefore # NoTime => last.cutoffBefore <= last.cutoff
        /\ evictedAt = last.cutoff
C29_Witness ==
    /\ last.kind = "evicted"
    /\ last.failed = {}
    /\ last.cutoffBefore # NoTime
    /\ \E v \in Views :
        /\ Behind(before, v)
        /\ Len(store[v]) < Len(before[v])
        /\ ~Behind(store, v)

\* C30: a round that samples and finds eviction not warranted leaves the skip
\* counter at zero; with the counter at zero every round samples the disk;
\* with the counter above zero every round is idle and takes exactly one off
\* the counter
C30_NoSkipAfterNoAction ==
    [][/\ last'.kind = "noaction" => roundsRemaining = 0 /\ roundsRemaining' = 0
       /\ (roundsRemaining = 0 /\ last'.kind # "none") =>
            /\ last'.kind # "idle"
            /\ last'.log # <<>>
            /\ last'.log[1] = diskQuery
       /\ (roundsRemaining > 0 /\ last'.kind # "none") =>
            /\ last'.kind = "idle"
            /\ roundsRemaining' = roundsRemaining - 1]_vars
C30_Witness ==
    /\ idleRoundsToSkip = 2
    /\ last.kind = "noaction"
    /\ last.idleBefore = 2
    /\ last.log = <<diskQuery, partsQuery>>
    /\ roundsRemaining = 0
    /\ store = before

\* the step indices the shipped migrator visits on the upgrade from index a to
\* index b
ForwardRange(a, b) == IF impl = "go" THEN UpgradeLoop(a, b) ELSE seq(a, 1, b - 1)
\* the step indices of the migrators the run invoked, in the order invoked
InvokedIndices == [k \in DOMAIN run.invoked |-> run.invoked[k][2]]

\* C31: a downgrade from version b to an earlier version a invokes backward
\* migrators only, and their step indices are those the upgrade from a to b
\* visits, in the reverse order, also when a and b are more than one step apart
C31_BackwardMirrorsForward ==
    (Resolved /\ run.fault = "none" /\ run.failed = {}
        /\ Index(run.data) > Index(run.target)) =>
        /\ \A k \in DOMAIN run.invoked : run.invoked[k][1] = "down"
        /\ InvokedIndices = Reverse(ForwardRange(Index(run.target), Index(run.data)))

\* both processes read the same data version, invoked a common migrator and
\* inserted into the version table
AppliedTwice ==
    LET a == race.procs["p1"]
        b == race.procs["p2"]
    IN  /\ a.pc = "done" /\ b.pc = "done"
        /\ a.data = b.data
        /\ SeqToSet(a.invoked) \cap SeqToSet(b.invoked) # {}
        /\ a.wrote /\ b.wrote

\* C32: two runs read the same data version, apply the same step twice and
\* write the version table twice only when they overlapped; with one run
\* active at a time that state is not reached
C32_RaceNeedsOverlap == AppliedTwice => race.overlapped
\* the interleaving of two overlapping runs that ends so
OverlapAppliesTwice == AppliedTwice /\ race.overlapped

\* the indices of the versions a version table holds, in row order
RowIndices(names, table) ==
    [k \in DOMAIN table.rows |->
        IF \E i \in 1..NumVersions : names[i] = table.rows[k]
        THEN (CHOOSE i \in 1..NumVersions : names[i] = table.rows[k]) - 1
        ELSE -1]
\* what the other migrator of the repository does on the store the last run
\* found, holding the same version, with the same target
OtherMigrator ==
    LET d == Index(run.data) + 1
        t == Index(run.target) + 1
    IN  IF impl = "go"
        THEN [names |-> ShVersionNames,
              out |-> migrate(VersionTable(TRUE, <<ShVersionNames[d]>>), flowsExists,
                              "none", ShVersionNames[t], {})]
        ELSE [names |-> GoVersionNames,
              out |-> main(VersionTable(TRUE, <<GoVersionNames[d]>>), flowsExists,
                           "none", GoVersionNames[t], GoVersionNames[d], {})]

\* C33: on a store whose version table holds one known version, the binary
\* and migrate.sh invoke the same migrators in the same order for the same
\* target, and leave version tables with the same number of rows holding the
\* same version
C33_GoShEquivalent ==
    (Resolved /\ run.fault = "none" /\ run.failed = {}
        /\ run.existedBefore /\ Len(run.rowsBefore) = 1) =>
        /\ run.invoked = OtherMigrator.out.run.invoked
        /\ run.kind = OtherMigrator.out.run.kind
        /\ RowIndices(VersionNames, migrate_version)
                = RowIndices(OtherMigrator.names, OtherMigrator.out.table)

\* C34: a run that resolved two versions the build knows indexes the migrator
\* lists inside their bounds only, so it never ends on an out-of-range access,
\* whether or not the count check logged a mismatch
C34_IndicesInRange ==
    (run.data \in GoKnown /\ run.target \in GoKnown) => run.kind # "panic"
\* in the binary as built the lists are complete and no run ends so
BuiltIndicesInRange == ~CountMismatch(upgradingMigrators, downgradingMigrators) /\ run.kind # "panic"

\* C35: a run of the binary on a store that answers every statement and has
\* neither the version table nor the flows table gets "not found" without an
\* error from getDataVersion and ends in main's no-data-schema branch, not in
\* its failed-to-get-the-version branch
C35_NoSchemaIsNotAnError ==
    (impl = "go" /\ NoTableBefore /\ ~flowsExists /\ run.fault = "none") =>
        /\ run.kind = "noschema"
        /\ ~Fatal(run)

\* C36: the skip counter is always within 0..idleRoundsToSkip; a step raises it
\* only to idleRoundsToSkip and only in a round that found eviction warranted
\* and got to its deletes; and while it is above zero a round issues no
\* statement and changes no table
C36_SkipCounterBounds ==
    /\ [](roundsRemaining >= 0 /\ roundsRemaining <= idleRoundsToSkip)
    /\ [][/\ roundsRemaining' > roundsRemaining =>
                /\ roundsRemaining' = idleRoundsToSkip
                /\ last'.kind = "evicted"
                /\ Trigger(last'.free, last'.total, last'.parts, allocatedSpace, threshold)
          /\ (roundsRemaining > 0 /\ last'.kind # "none") =>
                /\ last'.log = <<>>
                /\ store' = store]_vars
C36_Witness ==
    /\ idleRoundsToSkip = 2
    /\ roundsRemaining = 1
    /\ last.kind = "idle"
    /\ last.log = <<>>
    /\ sinceEvict = 1

\* the rows the last round removed from the base table
Removed == Len(before[tableName]) - Len(store[tableName])

\* C37: an eviction round whose delete on the base table succeeded removes at
\* most floor(N * deletePercentage) of its rows, N the row count the round
\* read, fewer when rows share the boundary timestamp; a row with the cutoff
\* as its insertion time stays, so the base table is not emptied
C37_RemovesAtMostOffset ==
    (last.kind = "evicted" /\ tableName \notin last.failed) =>
        /\ last.count = Len(before[tableName])
        /\ Removed >= 0
        /\ Removed <= (last.count * deletePercentage.num) \div deletePercentage.den
        /\ \E i \in DOMAIN store[tableName] : store[tableName][i] = last.cutoff
        /\ store[tableName] # <<>>
C37_Witness ==
    /\ last.kind = "evicted"
    /\ tableName \notin last.failed
    /\ Removed >= 1
    /\ Removed < FloorOfRows
    /\ Cardinality({i \in DOMAIN before[tableName] : before[tableName][i] = last.cutoff}) >= 2

\* C38: a round that found eviction warranted, read N >= 1 rows and computed
\* floor(N * deletePercentage) >= 1 gets its boundary row from a store that
\* answers every query: the round ends with a cutoff that is the insertion
\* time of a row of the base table, whatever deletePercentage in (0,1] is
C38_BoundaryRowExists ==
    (Sampled /\ Warranted /\ last.fault = "none" /\ FloorOfRows >= 1) =>
        /\ last.kind = "evicted"
        /\ \E i \in DOMAIN before[tableName] : before[tableName][i] = last.cutoff

\* the cluster has a Spark Operator Pod and a running ClickHouse Pod
ClusterReady ==
    /\ cli.sparkPods >= 1
    /\ \E i \in DOMAIN cli.clickHousePods : cli.clickHousePods[i] = "Running"

\* C39: when the cluster has no Spark Operator Pod or no running ClickHouse
\* Pod, PolicyRecoPreCheck returns an error, and the command sends no request:
\* start posts no SparkApplication and check reads no job status
C39_PreCheckGuards ==
    (cli.pc \in {"checked", "returned"} /\ ~ClusterReady) =>
        /\ cli.err # ""
        /\ cli.requests = <<>>
====
